---- MODULE Spec2Model ----
\* A model of modAL/models/learners.py: the batch learner (ActiveLearner and
\* BayesianOptimizer) and the classification Committee built from learners.
\*
\* Data.  An array is a sequence of rows and a row is a sequence of integers,
\* so Len(A) is shape[0] and Len(A[1]) is the trailing (column) shape.  A
\* single-output label vector is an array whose rows have width 1.  None is
\* the empty sequence: no array that passes check_X_y is empty.
EXTENDS Integers, Sequences, FiniteSets, TLC

VARIABLES
    cls,          \* the class of the learner object: "ActiveLearner" or "BayesianOptimizer"
    learner,      \* the learner's fields: X_training, y_training, estimator
    X_max,        \* BayesianOptimizer.X_max
    y_max,        \* BayesianOptimizer.y_max
    call,         \* history: the last call made on the learner, its arguments and outcome
    seen,         \* history: what construction and the successful teach calls supplied
    learner_list, \* Committee.learner_list: a sequence of learners
    classes_,     \* Committee.classes_
    n_classes_,   \* Committee.n_classes_
    proba,        \* the value returned by the last Committee.vote_proba (one sample)
    ccall,        \* history: the last call made on the Committee
    regressor,    \* a CommitteeRegressor: its learners' predictions and the last predict call
    deep          \* a DeepActiveLearner: its flags, its estimator and the last teach call

lvars == <<cls, learner, X_max, y_max, call, seen>>
cvars == <<learner_list, classes_, n_classes_, proba, ccall>>
ovars == <<regressor, deep>>
vars == <<cls, learner, X_max, y_max, call, seen,
          learner_list, classes_, n_classes_, proba, ccall, regressor, deep>>

-----------------------------------------------------------------------------
\* Bounds and input domains

\* the largest number of rows a training buffer is grown to
MaxRows == 2
\* the largest number of fit/teach calls made after construction
MaxCalls == 2
\* row counts of the arrays given to calls
BatchRows == {1, 2}
\* feature values
XVals == {1, 2}
\* label values
Labels == {0, 1}

None == << >>
\* -np.inf: below every label value
NegInf == -1

Row(c, v) == [j \in 1..c |-> v]
ArraysOf(vals, c, rows) == UNION { [1..n -> {Row(c, v) : v \in vals}] : n \in rows }
Distinct(A) == \A i, j \in DOMAIN A : i < j => A[i][1] < A[j][1]
\* sample arrays: distinct one-feature samples in increasing order, and a
\* sample with two features
XArrays == {A \in ArraysOf(XVals, 1, BatchRows) : Distinct(A)} \cup ArraysOf({1}, 2, {1})
\* single-output label vectors
YVectors == ArraysOf(Labels, 1, BatchRows)
\* label arrays: the vectors, and a two-output label
YArrays == YVectors \cup ArraysOf({0}, 2, {1})

NoExc == "none"
Ok(self) == [self |-> self, exc |-> NoExc]
Raise(self, e) == [self |-> self, exc |-> e]

-----------------------------------------------------------------------------
\* Collaborators

\* sklearn.utils.check_X_y as called here: consistent, non-zero row counts
check_X_y(X, y) == Len(X) = Len(y) /\ Len(X) >= 1

\* data_vstack((A, B)) raises ValueError unless the trailing shapes agree
CanStack(A, B) == Len(A[1]) = Len(B[1])
data_vstack(A, B) == A \o B

\* A[idx] for an index array idx
Take(A, idx) == [i \in DOMAIN idx |-> A[idx[i]]]
Identity(n) == [i \in 1..n |-> i]
\* the index arrays np.random.choice(range(n), n, replace=True) can return
Choices(n, bootstrap) == IF bootstrap THEN [1..n -> 1..n] ELSE {Identity(n)}

NotFitted == [fitted |-> FALSE, X |-> None, y |-> None]
\* estimator.fit(X, y): the estimator validates that X and y are aligned
\* arrays and remembers what it was fitted on
estimator_fit(self, X, y) ==
    IF X = None \/ y = None THEN Raise(self, "TypeError")
    ELSE IF Len(X) # Len(y) THEN Raise(self, "ValueError")
    ELSE Ok([self EXCEPT !.estimator = [fitted |-> TRUE, X |-> X, y |-> y]])

\* BaseLearner._fit_on_new: fit on the new batch only, or on a resample of it
_fit_on_new(self, X, y, bootstrap, idx) ==
    IF ~bootstrap THEN estimator_fit(self, X, y)
    ELSE IF \E i \in DOMAIN idx : idx[i] > Len(y) THEN Raise(self, "IndexError")
    ELSE estimator_fit(self, Take(X, idx), Take(y, idx))

-----------------------------------------------------------------------------
\* ActiveLearner

_add_training_data_nocheck(self, X, y) ==
    IF self.X_training = None
    THEN Ok([self EXCEPT !.X_training = X, !.y_training = y])
    ELSE IF ~CanStack(self.X_training, X) THEN Raise(self, "ValueError")
    ELSE LET s1 == [self EXCEPT !.X_training = data_vstack(@, X)]
         IN  IF ~CanStack(self.y_training, y) THEN Raise(s1, "ValueError")
             ELSE Ok([s1 EXCEPT !.y_training = data_vstack(@, y)])

_add_training_data_overwrite(self, X, y) ==
    IF ~check_X_y(X, y) THEN Raise(self, "ValueError")
    ELSE Ok([self EXCEPT !.X_training = X, !.y_training = y])

_add_training_data(self, X, y) ==
    IF ~check_X_y(X, y) THEN Raise(self, "ValueError")
    ELSE IF self.X_training = None
    THEN Ok([self EXCEPT !.X_training = X, !.y_training = y])
    ELSE IF ~CanStack(self.X_training, X) THEN Raise(self, "ValueError")
    ELSE LET s1 == [self EXCEPT !.X_training = data_vstack(@, X)]
         IN  IF ~CanStack(self.y_training, y) THEN Raise(s1, "ValueError")
             ELSE Ok([s1 EXCEPT !.y_training = data_vstack(@, y)])

_fit_to_known_unaligned(self, bootstrap, idx) ==
    IF ~bootstrap THEN estimator_fit(self, self.X_training, self.y_training)
    ELSE IF self.X_training = None THEN Raise(self, "AttributeError")
    ELSE IF self.y_training = None THEN Raise(self, "TypeError")
    ELSE estimator_fit(self, Take(self.X_training, idx), self.y_training)

_fit_to_known(self, bootstrap, idx) ==
    IF ~bootstrap THEN estimator_fit(self, self.X_training, self.y_training)
    ELSE IF self.X_training = None THEN Raise(self, "AttributeError")
    ELSE IF self.y_training = None THEN Raise(self, "TypeError")
    ELSE IF \E i \in DOMAIN idx : idx[i] > Len(self.y_training)
         THEN Raise(self, "IndexError")
    ELSE estimator_fit(self, Take(self.X_training, idx), Take(self.y_training, idx))

\* the number of indices _fit_to_known draws
NKnown(self) == Len(self.X_training)

ActiveLearner_init(X_training, y_training, bootstrap_init, idx) ==
    LET self == [X_training |-> X_training, y_training |-> y_training,
                 estimator |-> NotFitted]
    IN  IF X_training # None THEN _fit_to_known(self, bootstrap_init, idx)
        ELSE Ok(self)

fit_keep(self, X, y, bootstrap, idx) ==
    IF ~check_X_y(X, y) THEN Raise(self, "ValueError")
    ELSE LET s1 == [self EXCEPT !.X_training = data_vstack(@, X),
                                !.y_training = data_vstack(@, y)]
         IN  _fit_to_known(s1, bootstrap, idx)

fit(self, X, y, bootstrap, idx) ==
    IF ~check_X_y(X, y) THEN Raise(self, "ValueError")
    ELSE LET s1 == [self EXCEPT !.X_training = X, !.y_training = y]
         IN  _fit_to_known(s1, bootstrap, idx)

teach_always_add(self, X, y, bootstrap, only_new, idx) ==
    LET a == _add_training_data(self, X, y)
    IN  IF a.exc # NoExc THEN a
        ELSE IF ~only_new THEN _fit_to_known(a.self, bootstrap, idx)
        ELSE _fit_on_new(a.self, X, y, bootstrap, idx)

teach(self, X, y, bootstrap, only_new, idx) ==
    IF ~only_new
    THEN LET a == _add_training_data(self, X, y)
         IN  IF a.exc # NoExc THEN a ELSE _fit_to_known(a.self, bootstrap, idx)
    ELSE IF ~check_X_y(X, y) THEN Raise(self, "ValueError")
         ELSE _fit_on_new(self, X, y, bootstrap, idx)

-----------------------------------------------------------------------------
\* BayesianOptimizer

\* np.argmax over a vector of single outputs: the first index of the largest value
argmax(y) ==
    CHOOSE i \in 1..Len(y) :
        /\ \A j \in 1..Len(y) : y[j][1] <= y[i][1]
        /\ \A j \in 1..(i - 1) : y[j][1] < y[i][1]

\* retrieve_rows(X, i) raises unless X is an array with a row i
CanRetrieve(X, i) == X # None /\ i <= Len(X)
retrieve_rows(X, i) == X[i]

\* the tail of BayesianOptimizer.__init__: setting the maximum value
BayesianOptimizer_init_max(self) ==
    IF self.y_training # None
    THEN LET max_idx == argmax(self.y_training)
         IN  IF self.X_training = None
             THEN [exc |-> "TypeError", X_max |-> None, y_max |-> NegInf]
             ELSE IF ~CanRetrieve(self.X_training, max_idx)
             THEN [exc |-> "IndexError", X_max |-> None, y_max |-> NegInf]
             ELSE [exc |-> NoExc,
                   X_max |-> retrieve_rows(self.X_training, max_idx),
                   y_max |-> self.y_training[max_idx][1]]
    ELSE [exc |-> NoExc, X_max |-> None, y_max |-> NegInf]

\* _set_max returns the new (X_max, y_max); retrieve_rows raises when X has no
\* row max_idx
_set_max_latest(mx, X, y) ==
    LET max_idx == argmax(y)
    IN  IF ~CanRetrieve(X, max_idx) THEN [exc |-> "IndexError", max |-> mx]
        ELSE [exc |-> NoExc,
              max |-> [X_max |-> retrieve_rows(X, max_idx), y_max |-> y[max_idx][1]]]

_set_max_on_tie(mx, X, y) ==
    LET max_idx == argmax(y)
        y_m == y[max_idx][1]
    IN  IF y_m >= mx.y_max
        THEN IF ~CanRetrieve(X, max_idx)
             THEN [exc |-> "IndexError", max |-> [mx EXCEPT !.y_max = y_m]]
             ELSE [exc |-> NoExc,
                   max |-> [X_max |-> retrieve_rows(X, max_idx), y_max |-> y_m]]
        ELSE [exc |-> NoExc, max |-> mx]

_set_max(mx, X, y) ==
    LET max_idx == argmax(y)
        y_m == y[max_idx][1]
    IN  IF y_m > mx.y_max
        THEN IF ~CanRetrieve(X, max_idx)
             THEN [exc |-> "IndexError", max |-> [mx EXCEPT !.y_max = y_m]]
             ELSE [exc |-> NoExc,
                   max |-> [X_max |-> retrieve_rows(X, max_idx), y_max |-> y_m]]
        ELSE [exc |-> NoExc, max |-> mx]

BayesianOptimizer_teach(self, mx, X, y, bootstrap, only_new, idx) ==
    LET a == _add_training_data(self, X, y)
        f == IF ~only_new THEN _fit_to_known(a.self, bootstrap, idx)
             ELSE _fit_on_new(a.self, X, y, bootstrap, idx)
        m == _set_max(mx, X, y)
    IN  IF a.exc # NoExc THEN [self |-> a.self, exc |-> a.exc, max |-> mx]
        ELSE IF f.exc # NoExc THEN [self |-> f.self, exc |-> f.exc, max |-> mx]
        ELSE [self |-> f.self, exc |-> m.exc, max |-> m.max]

-----------------------------------------------------------------------------
\* The learner as a state machine: construction, then fit and teach calls

\* no CommitteeRegressor and no DeepActiveLearner was constructed
NoRegressor == regressor = [op |-> "none"]
NoDeepLearner == deep = [op |-> "none"]

NoCommittee ==
    /\ learner_list = << >>
    /\ classes_ = << >>
    /\ n_classes_ = 0
    /\ proba = << >>
    /\ ccall = [op |-> "none"]

\* the aligned (row, label) pairs and the labels of the arrays X, y
PairsOf(X, y) == { <<X[i], y[i][1]>> : i \in (DOMAIN X) \cap (DOMAIN y) }
LabelsOf(y) == { y[i][1] : i \in DOMAIN y }
Supplied(X, y) == [pairs |-> PairsOf(X, y), labels |-> LabelsOf(y)]
AlsoSupplied(s, X, y) ==
    [pairs |-> s.pairs \cup PairsOf(X, y), labels |-> s.labels \cup LabelsOf(y)]

Call(n, op, X, y, bootstrap, only_new, exc, pre) ==
    [n |-> n, op |-> op, X |-> X, y |-> y, bootstrap |-> bootstrap,
     only_new |-> only_new, exc |-> exc, pre |-> pre,
     pre_max |-> [X_max |-> X_max, y_max |-> y_max]]

YInputs(c) == IF c = "BayesianOptimizer" THEN YVectors ELSE YArrays

LearnerInit ==
    /\ cls \in {"ActiveLearner", "BayesianOptimizer"}
    /\ \E X \in {None} \cup XArrays, y \in {None} \cup YInputs(cls), b \in BOOLEAN :
         \E idx \in Choices(Len(X), b) :
           LET r == ActiveLearner_init(X, y, b, idx)
               m == BayesianOptimizer_init_max(r.self)
           IN  /\ r.exc = NoExc
               /\ learner = r.self
               /\ IF cls = "BayesianOptimizer"
                  THEN /\ m.exc = NoExc
                       /\ X_max = m.X_max
                       /\ y_max = m.y_max
                       /\ seen = Supplied(X, y)
                  ELSE /\ X_max = None
                       /\ y_max = NegInf
                       /\ seen = Supplied(None, None)
               /\ call = Call(0, "__init__", X, y, b, FALSE, NoExc, r.self)
    /\ NoCommittee
    /\ NoRegressor
    /\ NoDeepLearner

\* the buffer stays within the bound
Fits(self, X) == Len(self.X_training) + Len(X) <= MaxRows

Fit ==
    /\ call.n < MaxCalls
    /\ \E X \in XArrays, y \in YInputs(cls), b \in BOOLEAN :
         \E idx \in Choices(Len(X), b /\ check_X_y(X, y)) :
           LET r == fit(learner, X, y, b, idx)
           IN  /\ learner' = r.self
               /\ call' = Call(call.n + 1, "fit", X, y, b, FALSE, r.exc, learner)
               /\ UNCHANGED <<cls, X_max, y_max, seen, cvars, ovars>>

ActiveLearnerTeach ==
    /\ cls = "ActiveLearner"
    /\ call.n < MaxCalls
    /\ \E X \in XArrays, y \in YArrays, b \in BOOLEAN, only_new \in BOOLEAN :
         /\ Fits(learner, X)
         /\ LET a == _add_training_data(learner, X, y)
                n == IF only_new THEN Len(X) ELSE NKnown(a.self)
            IN  \E idx \in Choices(n, b /\ (only_new \/ a.exc = NoExc)) :
                  LET r == teach(learner, X, y, b, only_new, idx)
                  IN  /\ learner' = r.self
                      /\ call' = Call(call.n + 1, "teach", X, y, b, only_new, r.exc, learner)
                      /\ UNCHANGED <<cls, X_max, y_max, seen, cvars, ovars>>

BayesianOptimizerTeach ==
    /\ cls = "BayesianOptimizer"
    /\ call.n < MaxCalls
    /\ \E X \in XArrays, y \in YVectors, b \in BOOLEAN, only_new \in BOOLEAN :
         /\ Fits(learner, X)
         /\ LET a == _add_training_data(learner, X, y)
                n == IF only_new THEN Len(X) ELSE NKnown(a.self)
            IN  \E idx \in Choices(n, b /\ a.exc = NoExc) :
                  LET r == BayesianOptimizer_teach(
                               learner, [X_max |-> X_max, y_max |-> y_max],
                               X, y, b, only_new, idx)
                  IN  /\ learner' = r.self
                      /\ call' = Call(call.n + 1, "teach", X, y, b, only_new, r.exc, learner)
                      /\ X_max' = r.max.X_max
                      /\ y_max' = r.max.y_max
                      /\ seen' = IF r.exc = NoExc THEN AlsoSupplied(seen, X, y) ELSE seen
                      /\ UNCHANGED <<cls, cvars, ovars>>

LearnerNext == Fit \/ ActiveLearnerTeach \/ BayesianOptimizerTeach

SpecLearner == LearnerInit /\ [][LearnerNext]_vars

-----------------------------------------------------------------------------
\* numpy float64 arithmetic.  A natural number of up to Limbs * 13 bits is a
\* vector of digits of radix 2^13, least significant first; a float64 is
\* (-1)^sign * m * 2^e with m = 0 or 2^52 <= m < 2^53.  Every operation
\* returns the exact result rounded to nearest, ties to even.  Exponents are
\* not limited: no value of the model leaves the range of normal numbers.

DigitBits == 13
Radix == 2^DigitBits
Limbs == 10
Digits == 1..Limbs
\* the bits of the significand of a float64
Precision == 53

\* the vector of the digits d(1), ..., d(Limbs)
BigZero == LET d(i) == 0 IN <<d(1), d(2), d(3), d(4), d(5), d(6), d(7), d(8), d(9), d(10)>>
\* the digits of a natural number n < 2^31
Big(n) ==
    LET d(i) == IF i = 1 THEN n % Radix
                ELSE IF i = 2 THEN (n \div Radix) % Radix
                ELSE IF i = 3 THEN n \div (Radix * Radix)
                ELSE 0
    IN  <<d(1), d(2), d(3), d(4), d(5), d(6), d(7), d(8), d(9), d(10)>>

\* the digits from digit i on of the digit sums v, with the carry (or borrow,
\* when negative) into digit i
RECURSIVE NormFrom(_, _, _)
NormFrom(v, i, carry) ==
    IF i > Limbs THEN << >>
    ELSE <<(v[i] + carry) % Radix>> \o NormFrom(v, i + 1, (v[i] + carry) \div Radix)
Norm(v) == NormFrom(v, 1, 0)

BigAdd(a, b) == LET d(i) == a[i] + b[i] IN Norm(<<d(1), d(2), d(3), d(4), d(5), d(6), d(7), d(8), d(9), d(10)>>)
\* a - b for a >= b
BigSub(a, b) == LET d(i) == a[i] - b[i] IN Norm(<<d(1), d(2), d(3), d(4), d(5), d(6), d(7), d(8), d(9), d(10)>>)
RECURSIVE Conv(_, _, _, _)
Conv(a, b, i, j) == IF j = 0 THEN 0 ELSE a[j] * b[i + 1 - j] + Conv(a, b, i, j - 1)
BigMul(a, b) == LET d(i) == Conv(a, b, i, i) IN Norm(<<d(1), d(2), d(3), d(4), d(5), d(6), d(7), d(8), d(9), d(10)>>)
BigLess(a, b) ==
    \E i \in Digits : a[i] < b[i] /\ \A j \in (i + 1)..Limbs : a[j] = b[j]
BigShiftLeft(a, k) ==
    LET q == k \div DigitBits
        r == k % DigitBits
        d(i) == IF i - q >= 1 THEN a[i - q] * 2^r ELSE 0
    IN  IF k = 0 THEN a
        ELSE Norm(<<d(1), d(2), d(3), d(4), d(5), d(6), d(7), d(8), d(9), d(10)>>)
BigShiftRight(a, k) ==
    LET q == k \div DigitBits
        r == k % DigitBits
        At(i) == IF i <= Limbs THEN a[i] ELSE 0
        d(i) == (At(i + q) \div 2^r) + (At(i + q + 1) % 2^r) * 2^(DigitBits - r)
    IN  <<d(1), d(2), d(3), d(4), d(5), d(6), d(7), d(8), d(9), d(10)>>
\* the highest digit of a that is not 0, from digit i down; 0 when there is none
RECURSIVE TopDigit(_, _)
TopDigit(a, i) == IF i = 0 THEN 0 ELSE IF a[i] # 0 THEN i ELSE TopDigit(a, i - 1)
\* the number of bits of the digit d > 0
RECURSIVE DigitLength(_)
DigitLength(d) == IF d = 0 THEN 0 ELSE 1 + DigitLength(d \div 2)
BitLengthFrom(a, h) == IF h = 0 THEN 0 ELSE DigitBits * (h - 1) + DigitLength(a[h])
BitLength(a) == BitLengthFrom(a, TopDigit(a, Limbs))
\* the remainder that is left of a, divided by n, above digit i
RECURSIVE RemAbove(_, _, _)
RemAbove(a, n, i) ==
    IF i >= Limbs THEN 0 ELSE (RemAbove(a, n, i + 1) * Radix + a[i + 1]) % n
\* the digits 1 to i of a \div n, with the remainder rem left above digit i
RECURSIVE DivFrom(_, _, _, _)
DivFrom(a, n, i, rem) ==
    IF i = 0 THEN << >>
    ELSE Append(DivFrom(a, n, i - 1, (rem * Radix + a[i]) % n), (rem * Radix + a[i]) \div n)
\* a \div n and a % n for a small n
BigDiv(a, n) == DivFrom(a, n, Limbs, 0)
BigRem(a, n) == RemAbove(a, n, 0)

FloatZero == [sign |-> 0, m |-> BigZero, e |-> 0]
\* the result with the significand r, renormalised when rounding up carried
\* into a further bit
Rounded(sign, r, e) ==
    IF BitLength(r) > Precision
    THEN [sign |-> sign, m |-> BigShiftRight(r, 1), e |-> e + 1]
    ELSE [sign |-> sign, m |-> r, e |-> e]
\* bit b of m, counted from 0, and whether a bit of m below bit b is set
BitAt(m, b) == (m[b \div DigitBits + 1] \div 2^(b % DigitBits)) % 2
AnyBelow(m, b) ==
    \/ m[b \div DigitBits + 1] % 2^(b % DigitBits) # 0
    \/ \E i \in 1..(b \div DigitBits) : m[i] # 0
\* round to nearest, ties to even: q is m without its k lowest bits; up when
\* those bits are more than half a unit of q, or half a unit and q is odd
RoundUp(m, k, q, sticky) ==
    BitAt(m, k - 1) = 1 /\ (sticky \/ AnyBelow(m, k - 1) \/ q[1] % 2 = 1)
RoundShifted(sign, m, e, sticky, k, q) ==
    Rounded(sign, IF RoundUp(m, k, q, sticky) THEN BigAdd(q, Big(1)) ELSE q, e + k)
\* m * 2^e with the k lowest bits of m rounded away (k <= 0: none to round)
RoundTo(sign, m, e, sticky, k) ==
    IF m = BigZero THEN FloatZero
    ELSE IF k <= 0 THEN [sign |-> sign, m |-> BigShiftLeft(m, -k), e |-> e + k]
    ELSE RoundShifted(sign, m, e, sticky, k, BigShiftRight(m, k))
\* m * 2^e rounded to Precision bits; sticky: the exact value is a little
\* more than m * 2^e (by less than 2^e)
Round(sign, m, e, sticky) == RoundTo(sign, m, e, sticky, BitLength(m) - Precision)

\* a + b for the significands ma and mb of a and b at the common exponent e
AddAligned(a, b, e, ma, mb) ==
    IF a.sign = b.sign THEN Round(a.sign, BigAdd(ma, mb), e, FALSE)
    ELSE IF ma = mb THEN FloatZero
    ELSE IF BigLess(mb, ma) THEN Round(a.sign, BigSub(ma, mb), e, FALSE)
    ELSE Round(b.sign, BigSub(mb, ma), e, FALSE)
AddAt(a, b, e) == AddAligned(a, b, e, BigShiftLeft(a.m, a.e - e), BigShiftLeft(b.m, b.e - e))
f_add(a, b) ==
    IF a.m = BigZero THEN b
    ELSE IF b.m = BigZero THEN a
    ELSE IF a.e - b.e > Precision + 2 THEN a
    ELSE IF b.e - a.e > Precision + 2 THEN b
    ELSE AddAt(a, b, IF a.e < b.e THEN a.e ELSE b.e)
f_neg(a) == IF a.m = BigZero THEN a ELSE [a EXCEPT !.sign = 1 - @]
f_sub(a, b) == f_add(a, f_neg(b))
f_mul(a, b) == Round((a.sign + b.sign) % 2, BigMul(a.m, b.m), a.e + b.e, FALSE)
\* a / n for a count n: the significand of a, shifted left by k bits, over n
DivShifted(a, n, k, m) == Round(a.sign, BigDiv(m, n), a.e - k, BigRem(m, n) # 0)
DivAt(a, n, k) == DivShifted(a, n, k, BigShiftLeft(a.m, k))
f_div(a, n) == DivAt(a, n, BitLength(Big(n)) + 2)
\* the largest r with r * r <= n, found bit by bit from bit b down: count
\* bits at a time, r being the root found so far and t the same with bit b set
RECURSIVE BigSqrtBits(_, _, _, _)
BigSqrtStep(n, b, r, t, count) ==
    IF BigLess(n, BigMul(t, t)) THEN BigSqrtBits(n, b - 1, r, count - 1)
    ELSE BigSqrtBits(n, b - 1, t, count - 1)
BigSqrtBits(n, b, r, count) ==
    IF count = 0 \/ b < 0 THEN r
    ELSE BigSqrtStep(n, b, r, BigAdd(r, BigShiftLeft(Big(1), b)), count)
RECURSIVE BigSqrtFrom(_, _, _)
BigSqrtFrom(n, b, r) ==
    IF b < 0 THEN r
    ELSE CHOOSE q \in {BigSqrtFrom(n, b - DigitBits, x) : x \in {BigSqrtBits(n, b, r, DigitBits)}} : TRUE
\* the square root of a: the root r of its significand, shifted left by k bits
SqrtShifted(a, k, n, r) == Round(0, r, (a.e - k) \div 2, BigMul(r, r) # n)
SqrtOf(a, k, n) == SqrtShifted(a, k, n, BigSqrtFrom(n, Precision + 3, BigZero))
SqrtAt(a, k) == SqrtOf(a, k, BigShiftLeft(a.m, k))
SqrtValue(a) ==
    IF a.m = BigZero THEN a
    ELSE SqrtAt(a, IF a.e % 2 = 0 THEN Precision + 5 ELSE Precision + 4)
\* the operand is evaluated before the root is taken
f_sqrt(a) == CHOOSE r \in {SqrtValue(x) : x \in {a}} : TRUE

\* a < b
f_less(a, b) ==
    IF a.m = BigZero THEN b.m # BigZero /\ b.sign = 0
    ELSE IF b.m = BigZero THEN a.sign = 1
    ELSE IF a.sign # b.sign THEN a.sign = 1
    ELSE IF a.sign = 0 THEN a.e < b.e \/ (a.e = b.e /\ BigLess(a.m, b.m))
    ELSE b.e < a.e \/ (a.e = b.e /\ BigLess(b.m, a.m))
\* res += v[i] for i from lo to hi, in order
RECURSIVE add_in_order(_, _, _, _)
add_in_order(res, v, lo, hi) ==
    IF lo > hi THEN res ELSE add_in_order(f_add(res, v[lo]), v, lo + 1, hi)
\* one of the 8 partial sums of numpy's pairwise summation: v[o + j],
\* v[o + 8 + j], ... over the given number of blocks of 8
RECURSIVE Lane(_, _, _, _)
Lane(v, o, j, blocks) ==
    IF blocks = 1 THEN v[o + j]
    ELSE f_add(Lane(v, o, j, blocks - 1), v[o + 8 * (blocks - 1) + j])
\* r[lo] + ... + r[hi] added as a balanced tree: over the 8 partial sums,
\* ((r[0] + r[1]) + (r[2] + r[3])) + ((r[4] + r[5]) + (r[6] + r[7]))
RECURSIVE TreeAdd(_, _, _)
TreeAdd(r, lo, hi) ==
    IF lo = hi THEN r[lo]
    ELSE LET mid == (lo + hi) \div 2
         IN  f_add(TreeAdd(r, lo, mid), TreeAdd(r, mid + 1, hi))
\* numpy's pairwise summation of v[o + 1 .. o + n], used when the reduced axis
\* is contiguous: in order below 8 values, 8 partial sums added as a tree and
\* then the rest in order up to 128 values, two halves above
RECURSIVE pairwise_sum(_, _, _)
pairwise_sum(v, o, n) ==
    IF n < 8 THEN add_in_order(FloatZero, v, o + 1, o + n)
    ELSE IF n <= 128
    THEN LET b == n \div 8
             r == [j \in 1..8 |-> Lane(v, o, j, b)]
         IN  add_in_order(TreeAdd(r, 1, 8), v, o + 8 * b + 1, o + n)
    ELSE LET h == n \div 2
             n2 == h - (h % 8)
         IN  TreeAdd(<<pairwise_sum(v, o, n2), pairwise_sum(v, o + n2, n - n2)>>, 1, 2)
\* np.add.reduce over the learners of one sample (the last axis of vote)
add_reduce(v, n) == f_add(FloatZero, pairwise_sum(v, 0, n))
\* np.mean(vote, axis=1) for one sample
np_mean(v) == f_div(add_reduce(v, Len(v)), Len(v))
\* np.std(vote, axis=1) for one sample: the square root of the mean of the
\* squared deviations from the mean arrmean, which is computed first
Squared(x) == f_mul(x, x)
SquaredDeviations(v, arrmean) == [i \in DOMAIN v |-> Squared(f_sub(v[i], arrmean))]
VarianceAbout(v, arrmean, n) == f_div(add_reduce(SquaredDeviations(v, arrmean), n), n)
np_std(v) ==
    CHOOSE r \in {f_sqrt(VarianceAbout(v, arrmean, Len(v))) : arrmean \in {np_mean(v)}} : TRUE

-----------------------------------------------------------------------------
\* Committee

\* class labels
Classes == {0, 1, 2}
\* the sample arrays given to a Committee and to its learners
CommitteeX == {A \in XArrays : A[1][1] = 1}
\* the label vectors given to them: distinct classes in increasing order
CommitteeY == {y \in ArraysOf(Classes, 1, BatchRows) : Distinct(y)}
\* the learners of a Committee
LearnerIndex == {1, 2}
\* probabilities, in tenths
Tenths == {0, 3, 7, 10}

Min(S) == CHOOSE m \in S : \A k \in S : m <= k
RECURSIVE SortSet(_)
SortSet(S) == IF S = {} THEN << >> ELSE LET m == Min(S) IN <<m>> \o SortSet(S \ {m})
Range(s) == {s[i] : i \in DOMAIN s}
\* the position of label c in the label sequence cs
IndexOf(cs, c) == CHOOSE k \in DOMAIN cs : cs[k] = c

\* estimator.classes_ after estimator.fit(X, y): the sorted distinct labels of y
estimator_classes_(estimator) == SortSet(LabelsOf(estimator.y))

\* BaseCommittee._set_classes: the sorted union of the learners' class labels;
\* no classes while a learner's estimator has no classes_ yet
_set_classes(self) ==
    LET known == UNION {Range(estimator_classes_(self.learner_list[i].estimator)) :
                            i \in DOMAIN self.learner_list}
    IN  IF \E i \in DOMAIN self.learner_list : ~self.learner_list[i].estimator.fitted
        THEN [self EXCEPT !.classes_ = None, !.n_classes_ = 0]
        ELSE [self EXCEPT !.classes_ = SortSet(known), !.n_classes_ = Cardinality(known)]

\* Committee.__init__ from learners that were constructed before
Committee_init(learners) ==
    _set_classes([learner_list |-> learners, classes_ |-> << >>, n_classes_ |-> 0])

\* for learner in self.learner_list: learner._add_training_data(X, y),
\* from learner i on
RECURSIVE AddFrom(_, _, _, _)
AddFrom(self, i, X, y) ==
    IF i > Len(self.learner_list) THEN Ok(self)
    ELSE LET r == _add_training_data(self.learner_list[i], X, y)
             s1 == [self EXCEPT !.learner_list[i] = r.self]
         IN  IF r.exc # NoExc THEN Raise(s1, r.exc) ELSE AddFrom(s1, i + 1, X, y)

Committee_add_training_data(self, X, y) == AddFrom(self, 1, X, y)

\* for learner in self.learner_list: learner._fit_to_known(bootstrap=bootstrap),
\* from learner i on; idxs[i] is the index array drawn for learner i
RECURSIVE FitKnownFrom(_, _, _, _)
FitKnownFrom(self, i, bootstrap, idxs) ==
    IF i > Len(self.learner_list) THEN Ok(self)
    ELSE LET r == _fit_to_known(self.learner_list[i], bootstrap, idxs[i])
             s1 == [self EXCEPT !.learner_list[i] = r.self]
         IN  IF r.exc # NoExc THEN Raise(s1, r.exc)
             ELSE FitKnownFrom(s1, i + 1, bootstrap, idxs)

Committee_fit_to_known(self, bootstrap, idxs) == FitKnownFrom(self, 1, bootstrap, idxs)

\* BaseCommittee._fit_on_new: every learner is fitted to the new batch
RECURSIVE FitNewFrom(_, _, _, _, _, _)
FitNewFrom(self, i, X, y, bootstrap, idxs) ==
    IF i > Len(self.learner_list) THEN Ok(self)
    ELSE LET r == _fit_on_new(self.learner_list[i], X, y, bootstrap, idxs[i])
             s1 == [self EXCEPT !.learner_list[i] = r.self]
         IN  IF r.exc # NoExc THEN Raise(s1, r.exc)
             ELSE FitNewFrom(s1, i + 1, X, y, bootstrap, idxs)

Committee_fit_on_new(self, X, y, bootstrap, idxs) ==
    FitNewFrom(self, 1, X, y, bootstrap, idxs)

\* for learner in self.learner_list: learner.fit(X, y), from learner i on
RECURSIVE FitFrom(_, _, _, _)
FitFrom(self, i, X, y) ==
    IF i > Len(self.learner_list) THEN Ok(self)
    ELSE LET r == fit(self.learner_list[i], X, y, FALSE, Identity(Len(X)))
             s1 == [self EXCEPT !.learner_list[i] = r.self]
         IN  IF r.exc # NoExc THEN Raise(s1, r.exc) ELSE FitFrom(s1, i + 1, X, y)

Committee_fit_append(self, X, y) ==
    LET a == Committee_add_training_data(self, X, y)
        f == Committee_fit_to_known(a.self, FALSE,
                                    [i \in DOMAIN self.learner_list |-> Identity(0)])
    IN  IF a.exc # NoExc THEN a
        ELSE IF f.exc # NoExc THEN f
        ELSE Ok(_set_classes(f.self))

Committee_fit(self, X, y) ==
    LET f == FitFrom(self, 1, X, y)
    IN  IF f.exc # NoExc THEN f ELSE Ok(_set_classes(f.self))

Committee_rebag_store(self, idxs) ==
    LET f == Committee_fit_to_known(self, TRUE, idxs)
        ls == f.self.learner_list
    IN  IF f.exc # NoExc THEN f
        ELSE Ok([f.self EXCEPT !.learner_list =
                    [i \in DOMAIN ls |-> [ls[i] EXCEPT !.X_training = ls[i].estimator.X,
                                                       !.y_training = ls[i].estimator.y]]])

Committee_rebag(self, idxs) == Committee_fit_to_known(self, TRUE, idxs)

Committee_teach_keep_classes(self, X, y, bootstrap, only_new, idxs) ==
    LET a == Committee_add_training_data(self, X, y)
        f == IF ~only_new THEN Committee_fit_to_known(a.self, bootstrap, idxs)
             ELSE Committee_fit_on_new(a.self, X, y, bootstrap, idxs)
    IN  IF a.exc # NoExc THEN a ELSE f

Committee_teach_bypass(self, X, y, bootstrap, only_new, idxs) ==
    LET a == Committee_add_training_data(self, X, y)
        f == IF ~only_new THEN Committee_fit_to_known(a.self, bootstrap, idxs)
             ELSE Committee_fit_on_new(self, X, y, bootstrap, idxs)
    IN  IF a.exc # NoExc THEN a
        ELSE IF f.exc # NoExc THEN f
        ELSE Ok(_set_classes(f.self))

Committee_teach(self, X, y, bootstrap, only_new, idxs) ==
    LET a == Committee_add_training_data(self, X, y)
        f == IF ~only_new THEN Committee_fit_to_known(a.self, bootstrap, idxs)
             ELSE Committee_fit_on_new(a.self, X, y, bootstrap, idxs)
    IN  IF a.exc # NoExc THEN a
        ELSE IF f.exc # NoExc THEN f
        ELSE Ok(_set_classes(f.self))

\* check_class_labels: do all learners know the same set of class labels
check_class_labels(learners) ==
    \A i, j \in DOMAIN learners :
        Range(estimator_classes_(learners[i].estimator))
            = Range(estimator_classes_(learners[j].estimator))

\* check_class_proba: the probabilities of the known labels at their places
\* among all labels, 0 for the labels that are not known
check_class_proba(p, known_labels, all_labels) ==
    [k \in DOMAIN all_labels |->
        IF all_labels[k] \in Range(known_labels)
        THEN p[IndexOf(known_labels, all_labels[k])]
        ELSE 0]

\* proba[:, learner_idx, :] = p, for one sample: numpy copies a row of width
\* n, repeats a row of width 1 and raises ValueError for any other width
CanAssign(p, n) == Len(p) = n \/ Len(p) = 1
Assigned(p, n) == IF Len(p) = n THEN p ELSE [k \in 1..n |-> p[1]]

AllFitted(learners) == \A i \in DOMAIN learners : learners[i].estimator.fitted

\* P[i] is learner i's predict_proba for the sample, one entry per label of
\* its estimator.classes_
vote_proba_direct(self, P) ==
    IF ~(\A i \in DOMAIN self.learner_list : self.learner_list[i].estimator.fitted)
    THEN [exc |-> "NotFittedError", proba |-> << >>]
    ELSE IF \E i \in DOMAIN P : ~CanAssign(P[i], self.n_classes_)
    THEN [exc |-> "ValueError", proba |-> << >>]
    ELSE [exc |-> NoExc,
          proba |-> [i \in DOMAIN P |-> Assigned(P[i], self.n_classes_)]]

vote_proba(self, P) ==
    IF ~AllFitted(self.learner_list) THEN [exc |-> "NotFittedError", proba |-> << >>]
    ELSE IF check_class_labels(self.learner_list)
    THEN IF \E i \in DOMAIN P : ~CanAssign(P[i], self.n_classes_)
         THEN [exc |-> "ValueError", proba |-> << >>]
         ELSE [exc |-> NoExc,
               proba |-> [i \in DOMAIN P |-> Assigned(P[i], self.n_classes_)]]
    ELSE IF self.classes_ = None THEN [exc |-> "TypeError", proba |-> << >>]
    ELSE [exc |-> NoExc,
          proba |-> [i \in DOMAIN P |->
                        check_class_proba(
                            P[i],
                            estimator_classes_(self.learner_list[i].estimator),
                            self.classes_)]]

\* the float64 nearest to t / 10
NearestTenth(t) == f_div(Round(0, Big(t), 0, FALSE), 10)
\* the float64 values of 0.0, 0.1, ..., 1.0
TenthFloats ==
    <<NearestTenth(0), NearestTenth(1), NearestTenth(2), NearestTenth(3),
      NearestTenth(4), NearestTenth(5), NearestTenth(6), NearestTenth(7),
      NearestTenth(8), NearestTenth(9), NearestTenth(10)>>
\* the float64 a learner's predict_proba returns for a probability of t tenths
TenthOf(t) == TenthFloats[t + 1]

\* the float64 mean for class k of the probabilities of the n learners.  With
\* two or more classes the learner axis is not the contiguous one and numpy
\* adds in the order of the learners; with a single class the axis of length
\* 1 drops out, the learner axis is contiguous and the sum is pairwise
ClassMean(votes, k, n) ==
    IF Len(votes[1]) = 1
    THEN f_div(add_reduce([i \in 1..n |-> TenthOf(votes[i][k])], n), n)
    ELSE f_div(add_in_order(FloatZero, [i \in 1..n |-> TenthOf(votes[i][k])], 1, n), n)
\* the means for the classes 1 to k
RECURSIVE ClassMeans(_, _)
ClassMeans(votes, k) ==
    IF k = 0 THEN << >> ELSE Append(ClassMeans(votes, k - 1), ClassMean(votes, k, Len(votes)))
\* np.mean(vote_proba, axis=1) for one sample: the mean for every class
predict_proba(votes) == ClassMeans(votes, Len(votes[1]))

\* np.argmax of a vector that is not empty: the scan from the first value on
\* moves to a later index only for a value greater than the greatest so far
RECURSIVE ArgmaxFrom(_, _, _)
ArgmaxFrom(v, i, max_ind) ==
    IF i > Len(v) THEN max_ind
    ELSE ArgmaxFrom(v, i + 1, IF f_less(v[max_ind], v[i]) THEN i ELSE max_ind)
np_argmax(v) == ArgmaxFrom(v, 2, 1)

\* Committee.predict returning the index in place of the label classes_[index]
Committee_predict_index(self, P) ==
    LET v == vote_proba(self, P)
    IN  IF v.exc # NoExc THEN [exc |-> v.exc, proba |-> v.proba, label |-> None]
        ELSE IF Len(v.proba[1]) = 0
        THEN [exc |-> "ValueError", proba |-> v.proba, label |-> None]
        ELSE [exc |-> NoExc, proba |-> v.proba,
              label |-> np_argmax(predict_proba(v.proba)) - 1]

\* Committee.predict for one sample: np.argmax raises ValueError for a row
\* without classes
Committee_predict(self, P) ==
    LET v == vote_proba(self, P)
    IN  IF v.exc # NoExc THEN [exc |-> v.exc, proba |-> v.proba, label |-> None]
        ELSE IF Len(v.proba[1]) = 0
        THEN [exc |-> "ValueError", proba |-> v.proba, label |-> None]
        ELSE [exc |-> NoExc, proba |-> v.proba,
              label |-> self.classes_[np_argmax(predict_proba(v.proba))]]

-----------------------------------------------------------------------------
\* The Committee as a state machine: construction from learners, then fit,
\* teach, rebag and vote_proba calls

NoLearner ==
    /\ cls = "ActiveLearner"
    /\ learner = [X_training |-> None, y_training |-> None, estimator |-> NotFitted]
    /\ X_max = None
    /\ y_max = NegInf
    /\ call = [n |-> 0, op |-> "none"]
    /\ seen = Supplied(None, None)

Committee == [learner_list |-> learner_list, classes_ |-> classes_,
              n_classes_ |-> n_classes_]

CCall(n, op, X, y, bootstrap, only_new, P, exc, pre) ==
    [n |-> n, op |-> op, X |-> X, y |-> y, bootstrap |-> bootstrap,
     only_new |-> only_new, P |-> P, exc |-> exc, pre |-> pre]

\* learners constructed without data, or with aligned data
ConstructedLearners ==
    {ActiveLearner_init(None, None, FALSE, Identity(0)).self}
    \cup {ActiveLearner_init(X, y, FALSE, Identity(Len(X))).self :
              <<X, y>> \in {d \in CommitteeX \X CommitteeY : Len(d[1]) = Len(d[2])}}

Sum(p) == LET RECURSIVE S(_)
              S(k) == IF k = 0 THEN 0 ELSE p[k] + S(k - 1)
          IN  S(Len(p))
\* the rows predict_proba can return for an estimator that knows k labels
ProbaRows(k) == {p \in [1..k -> Tenths] : Sum(p) = 10}
\* one row for every learner
ProbaOutputs(learners) ==
    IF ~AllFitted(learners) THEN {<< >>}
    ELSE {P \in [DOMAIN learners -> UNION {ProbaRows(k) : k \in 1..Cardinality(Classes)}] :
            \A i \in DOMAIN learners :
                Len(P[i]) = Len(estimator_classes_(learners[i].estimator))}

\* one index array for every learner; ns[i] is the number of rows learner i draws from
IndexChoices(ns, bootstrap) ==
    {f \in [DOMAIN ns -> UNION {Choices(ns[i], bootstrap) : i \in DOMAIN ns}] :
        \A i \in DOMAIN ns : f[i] \in Choices(ns[i], bootstrap)}

CommitteeInit ==
    /\ \E learners \in [LearnerIndex -> ConstructedLearners] :
         LET c == Committee_init(learners)
         IN  /\ learner_list = c.learner_list
             /\ classes_ = c.classes_
             /\ n_classes_ = c.n_classes_
             /\ ccall = CCall(0, "__init__", None, None, FALSE, FALSE, << >>, NoExc, c)
    /\ proba = << >>
    /\ NoLearner
    /\ NoRegressor
    /\ NoDeepLearner

Becomes(c) ==
    /\ learner_list' = c.learner_list
    /\ classes_' = c.classes_
    /\ n_classes_' = c.n_classes_

AllFit(learners, X) == \A i \in DOMAIN learners : Fits(learners[i], X)

CommitteeFit ==
    /\ ccall.n < MaxCalls
    /\ \E X \in CommitteeX, y \in CommitteeY :
         LET r == Committee_fit(Committee, X, y)
         IN  /\ Becomes(r.self)
             /\ ccall' = CCall(ccall.n + 1, "fit", X, y, FALSE, FALSE, << >>, r.exc, Committee)
             /\ UNCHANGED <<proba, lvars, ovars>>

CommitteeRebag ==
    /\ ccall.n < MaxCalls
    /\ \E idxs \in IndexChoices([i \in DOMAIN learner_list |-> NKnown(learner_list[i])], TRUE) :
         LET r == Committee_rebag(Committee, idxs)
         IN  /\ Becomes(r.self)
             /\ ccall' = CCall(ccall.n + 1, "rebag", None, None, TRUE, FALSE, << >>, r.exc,
                               Committee)
             /\ UNCHANGED <<proba, lvars, ovars>>

CommitteeTeach ==
    /\ ccall.n < MaxCalls
    /\ \E X \in CommitteeX, y \in CommitteeY, b \in BOOLEAN, only_new \in BOOLEAN :
         /\ AllFit(learner_list, X)
         /\ LET a == Committee_add_training_data(Committee, X, y)
                ns == [i \in DOMAIN learner_list |->
                         IF only_new THEN Len(X) ELSE NKnown(a.self.learner_list[i])]
            IN  \E idxs \in IndexChoices(ns, b /\ a.exc = NoExc) :
                  LET r == Committee_teach(Committee, X, y, b, only_new, idxs)
                  IN  /\ Becomes(r.self)
                      /\ ccall' = CCall(ccall.n + 1, "teach", X, y, b, only_new, << >>,
                                        r.exc, Committee)
                      /\ UNCHANGED <<proba, lvars, ovars>>

CommitteeVoteProba ==
    /\ ccall.n < MaxCalls
    /\ \E P \in ProbaOutputs(learner_list) :
         LET r == vote_proba(Committee, P)
         IN  /\ proba' = r.proba
             /\ ccall' = CCall(ccall.n + 1, "vote_proba", None, None, FALSE, FALSE, P,
                               r.exc, Committee)
             /\ UNCHANGED <<learner_list, classes_, n_classes_, lvars, ovars>>

\* predict calls vote_proba; the label it returns is kept in the call record.
\* It may also follow a rebag that was the last of MaxCalls calls, to predict
\* with the learners that rebag has fitted
CommitteePredict ==
    /\ ccall.n < MaxCalls \/ (ccall.n = MaxCalls /\ ccall.op = "rebag")
    /\ \E P \in ProbaOutputs(learner_list) :
         LET r == Committee_predict(Committee, P)
         IN  /\ proba' = r.proba
             /\ ccall' = [n |-> ccall.n + 1, op |-> "predict", P |-> P, exc |-> r.exc,
                          pre |-> Committee, label |-> r.label]
             /\ UNCHANGED <<learner_list, classes_, n_classes_, lvars, ovars>>

CommitteeNext ==
    \/ CommitteeFit
    \/ CommitteeRebag
    \/ CommitteeTeach
    \/ CommitteeVoteProba
    \/ CommitteePredict

SpecCommittee == CommitteeInit /\ [][CommitteeNext]_vars

-----------------------------------------------------------------------------
\* CommitteeRegressor

\* the learners of a CommitteeRegressor and the samples of a predict call
RegressorSizes == {2, 3, 8}
SampleCounts == {1, 2}
\* the float64 0.1
Tenth == [sign |-> 0, m |-> <<6554, 3276, 1638, 4915, 1, 0, 0, 0, 0, 0>>, e |-> -56]
\* the float64 1.5
OneAndHalf == [sign |-> 0, m |-> <<0, 0, 0, 4096, 1, 0, 0, 0, 0, 0>>, e |-> -52]
\* the values learner.predict returns
Predictions == {Tenth, OneAndHalf}

\* CommitteeRegressor.vote: vote[s][l] is learner l's prediction for sample s,
\* P[l] being the vector learner l's predict returns
CommitteeRegressor_vote(P, n_samples) ==
    [s \in 1..n_samples |-> [l \in DOMAIN P |-> P[l][s]]]

\* CommitteeRegressor.predict
CommitteeRegressor_predict(P, n_samples, return_std) ==
    LET vote == CommitteeRegressor_vote(P, n_samples)
    IN  IF ~return_std
        THEN [mean |-> [s \in 1..n_samples |-> np_mean(vote[s])], std |-> None]
        ELSE [mean |-> [s \in 1..n_samples |-> np_mean(vote[s])],
              std |-> [s \in 1..n_samples |-> np_std(vote[s])]]

RegressorInit ==
    /\ \E n \in RegressorSizes : regressor = [op |-> "__init__", n |-> n]
    /\ NoLearner
    /\ NoCommittee
    /\ NoDeepLearner

\* predict reads the committee and changes nothing of it: one call is
\* followed from every constructed CommitteeRegressor
SampleCountsOf(n) == IF n < 8 THEN SampleCounts ELSE {1}

RegressorPredict ==
    /\ regressor.op = "__init__"
    /\ \E n_samples \in SampleCountsOf(regressor.n), return_std \in BOOLEAN :
         \E P \in [1..regressor.n -> [1..n_samples -> Predictions]] :
           LET r == CommitteeRegressor_predict(P, n_samples, return_std)
           IN  /\ regressor' = [op |-> "predict", n |-> regressor.n, P |-> P,
                                return_std |-> return_std, mean |-> r.mean, std |-> r.std]
               /\ UNCHANGED <<lvars, cvars, deep>>

RegressorNext == RegressorPredict

SpecRegressor == RegressorInit /\ [][RegressorNext]_vars

-----------------------------------------------------------------------------
\* DeepActiveLearner: no training data is kept on the learner.  The estimator
\* record holds what the current parameters were trained on since they were
\* last initialized: fit starts again from (X, y), partial_fit adds to it.

\* estimator.partial_fit(X, y): trains the current parameters further
estimator_partial_fit(self, X, y) ==
    IF X = None \/ y = None THEN Raise(self, "TypeError")
    ELSE IF Len(X) # Len(y) THEN Raise(self, "ValueError")
    ELSE Ok([self EXCEPT !.estimator =
                [fitted |-> TRUE, X |-> @.X \o X, y |-> @.y \o y]])

\* DeepActiveLearner.__init__: estimator.initialize()
DeepActiveLearner_init == [estimator |-> NotFitted]

DeepActiveLearner_teach_cold(self, X, y, warm_start, bootstrap, idx) ==
    _fit_on_new(self, X, y, bootstrap, idx)

DeepActiveLearner_teach(self, X, y, warm_start, bootstrap, idx) ==
    IF warm_start
    THEN IF ~bootstrap THEN estimator_partial_fit(self, X, y)
         ELSE IF \E i \in DOMAIN idx : idx[i] > Len(y) THEN Raise(self, "IndexError")
         ELSE estimator_partial_fit(self, Take(X, idx), Take(y, idx))
    ELSE _fit_on_new(self, X, y, bootstrap, idx)

DeepInit ==
    /\ deep = [n |-> 0, op |-> "__init__", self |-> DeepActiveLearner_init]
    /\ NoLearner
    /\ NoCommittee
    /\ NoRegressor

DeepTeach ==
    /\ deep.n < MaxCalls
    /\ \E X \in XArrays, y \in YArrays, warm_start \in BOOLEAN, bootstrap \in BOOLEAN :
         \E idx \in Choices(Len(X), bootstrap) :
           LET r == DeepActiveLearner_teach(deep.self, X, y, warm_start, bootstrap, idx)
           IN  /\ deep' = [n |-> deep.n + 1, op |-> "teach", self |-> r.self,
                           X |-> X, y |-> y, warm_start |-> warm_start,
                           bootstrap |-> bootstrap, exc |-> r.exc, pre |-> deep.self]
               /\ UNCHANGED <<lvars, cvars, regressor>>

\* DeepActiveLearner.fit: self._fit_on_new(X, y, bootstrap=bootstrap)
DeepActiveLearner_fit(self, X, y, bootstrap, idx) ==
    _fit_on_new(self, X, y, bootstrap, idx)

DeepFit ==
    /\ deep.n < MaxCalls
    /\ \E X \in XArrays, y \in YArrays, bootstrap \in BOOLEAN :
         \E idx \in Choices(Len(X), bootstrap) :
           LET r == DeepActiveLearner_fit(deep.self, X, y, bootstrap, idx)
           IN  /\ deep' = [n |-> deep.n + 1, op |-> "fit", self |-> r.self,
                           X |-> X, y |-> y, warm_start |-> FALSE,
                           bootstrap |-> bootstrap, exc |-> r.exc, pre |-> deep.self]
               /\ UNCHANGED <<lvars, cvars, regressor>>

DeepNext == DeepTeach \/ DeepFit

SpecDeep == DeepInit /\ [][DeepNext]_vars

-----------------------------------------------------------------------------
\* Every object that fits with bootstrap=True: a learner, a Committee or a
\* DeepActiveLearner is constructed, and its calls follow.

LearnerStep == call.op # "none" /\ LearnerNext
CommitteeStep == ccall.op # "none" /\ CommitteeNext
DeepStep == deep.op # "none" /\ DeepNext

BootstrapInit == LearnerInit \/ CommitteeInit \/ DeepInit

BootstrapNext == LearnerStep \/ CommitteeStep \/ DeepStep

SpecBootstrap == BootstrapInit /\ [][BootstrapNext]_vars

-----------------------------------------------------------------------------
\* Properties of the learner (checked under SpecLearner)

SameBuffer(a, b) == a.X_training = b.X_training /\ a.y_training = b.y_training
TeachCalled == call.op = "teach"
Succeeded == call.exc = NoExc
RowMismatch == Len(call.X) # Len(call.y)
Max(S) == CHOOSE m \in S : \A k \in S : k <= m
\* D is n rows drawn, with repetition, from the aligned rows of (X, y)
Resample(D, X, y, n) ==
    /\ Len(D.X) = n
    /\ Len(D.y) = n
    /\ \A i \in 1..n : \E j \in 1..Len(X) : D.X[i] = X[j] /\ D.y[i] = y[j]

\* C1: a teach call whose X and y have different row counts raises the
\* validation error and leaves X_training and y_training as they were, for
\* ActiveLearner and BayesianOptimizer and for either value of only_new.
C1_RowMismatchLeavesBuffer ==
    (TeachCalled /\ RowMismatch) =>
        (call.exc = "ValueError" /\ SameBuffer(learner, call.pre))

C1_Witness ==
    /\ TeachCalled /\ RowMismatch
    /\ cls = "BayesianOptimizer"
    /\ call.only_new
    /\ call.pre.X_training # None
    /\ call.exc = "ValueError"

\* C2: in every reachable state X_training and y_training are both None or
\* have the same number of rows.
C2_BufferAligned ==
    \/ learner.X_training = None /\ learner.y_training = None
    \/ /\ learner.X_training # None
       /\ learner.y_training # None
       /\ Len(learner.X_training) = Len(learner.y_training)

\* C4: get_max() of a BayesianOptimizer returns the largest label supplied at
\* construction or by a successful teach call, together with a row that was
\* supplied with that label; later teach calls with smaller values keep it.
C4_MaxOverAllTaught ==
    (cls = "BayesianOptimizer" /\ seen.labels # {}) =>
        (y_max = Max(seen.labels) /\ <<X_max, y_max>> \in seen.pairs)

C4_Witness ==
    /\ cls = "BayesianOptimizer"
    /\ call.n >= 2
    /\ TeachCalled /\ Succeeded
    /\ call.pre.X_training # None
    /\ \A i \in DOMAIN call.y : call.y[i][1] < y_max
    /\ y_max = call.pre_max.y_max
    /\ X_max = call.pre_max.X_max

\* C6: a successful ActiveLearner.teach(X, y, only_new=False) makes the buffer
\* the previous buffer followed by (X, y), or (X, y) when there was none, keeps
\* an aligned buffer aligned, and fits the estimator to the whole buffer (to a
\* resample of the whole buffer when bootstrap is set).
C6_TeachAppends ==
    (cls = "ActiveLearner" /\ TeachCalled /\ ~call.only_new /\ Succeeded) =>
        /\ IF call.pre.X_training = None
           THEN learner.X_training = call.X /\ learner.y_training = call.y
           ELSE /\ learner.X_training = call.pre.X_training \o call.X
                /\ learner.y_training = call.pre.y_training \o call.y
        /\ Len(call.pre.X_training) = Len(call.pre.y_training)
              => Len(learner.X_training) = Len(learner.y_training)
        /\ learner.estimator.fitted
        /\ IF call.bootstrap
           THEN Resample(learner.estimator, learner.X_training, learner.y_training,
                         Len(learner.X_training))
           ELSE /\ learner.estimator.X = learner.X_training
                /\ learner.estimator.y = learner.y_training

C6_Witness ==
    /\ cls = "ActiveLearner" /\ TeachCalled /\ ~call.only_new /\ Succeeded
    /\ ~call.bootstrap
    /\ call.n >= 2
    /\ call.pre.X_training # None
    /\ Len(call.pre.X_training) = 1
    /\ learner.X_training = call.pre.X_training \o call.X
    /\ learner.X_training[1] # learner.X_training[2]
    /\ learner.estimator.X = learner.X_training

\* C7: a successful fit(X, y) replaces the buffer: afterwards X_training and
\* y_training are exactly X and y, whatever was accumulated before.
C7_FitReplaces ==
    (call.op = "fit" /\ Succeeded) =>
        (learner.X_training = call.X /\ learner.y_training = call.y)

C7_Witness ==
    /\ call.op = "fit" /\ Succeeded
    /\ call.pre.X_training # None
    /\ Len(call.pre.X_training) > Len(call.X)
    /\ learner.X_training = call.X

\* C8: ActiveLearner.teach(X, y, only_new=True) fits the estimator to the new
\* batch only (to a resample of it when bootstrap is set) and leaves
\* X_training and y_training unchanged.
C8_OnlyNewBypassesBuffer ==
    (cls = "ActiveLearner" /\ TeachCalled /\ call.only_new /\ Succeeded) =>
        /\ SameBuffer(learner, call.pre)
        /\ learner.estimator.fitted
        /\ IF call.bootstrap
           THEN Resample(learner.estimator, call.X, call.y, Len(call.X))
           ELSE learner.estimator.X = call.X /\ learner.estimator.y = call.y

C8_Witness ==
    /\ cls = "ActiveLearner" /\ TeachCalled /\ call.only_new /\ Succeeded
    /\ call.pre.X_training # None
    /\ call.pre.X_training # call.X
    /\ learner.estimator.X = call.X
    /\ learner.X_training = call.pre.X_training

\* the batch of the call disagrees in column shape with the buffer it met
ColumnMismatch ==
    /\ call.pre.X_training # None
    /\ call.pre.y_training # None
    /\ \/ ~CanStack(call.pre.X_training, call.X)
       \/ ~CanStack(call.pre.y_training, call.y)

\* C10: a teach(only_new=False) call whose X or y disagrees in column shape
\* with the existing buffer raises ValueError and leaves both X_training and
\* y_training with their previous contents.
C10_ColumnMismatchLeavesBuffer ==
    (TeachCalled /\ ~call.only_new /\ ~RowMismatch /\ ColumnMismatch) =>
        (call.exc = "ValueError" /\ SameBuffer(learner, call.pre))

-----------------------------------------------------------------------------
\* Further properties of the learner (checked under SpecLearner)

\* one step of a BayesianOptimizer: y_max does not decrease; (X_max, y_max) is
\* replaced only by a successful teach whose batch maximum is strictly greater
\* than y_max, and then by that maximum and a row supplied with it
MaxStep ==
    cls = "BayesianOptimizer" =>
        /\ y_max' >= y_max
        /\ <<X_max', y_max'>> # <<X_max, y_max>> =>
              /\ call'.op = "teach" /\ call'.exc = NoExc
              /\ Max(LabelsOf(call'.y)) > y_max
              /\ y_max' = Max(LabelsOf(call'.y))
              /\ <<X_max', y_max'>> \in PairsOf(call'.X, call'.y)
        /\ (call'.op = "teach" /\ Max(LabelsOf(call'.y)) <= y_max) =>
              (X_max' = X_max /\ y_max' = y_max)
\* a BayesianOptimizer constructed without labels starts at (None, -infinity)
StartsWithoutMax ==
    (cls = "BayesianOptimizer" /\ call.op = "__init__" /\ call.y = None) =>
        (X_max = None /\ y_max = NegInf)

\* C11: across BayesianOptimizer.teach calls y_max never decreases, and
\* (X_max, y_max) is replaced only when the maximum of the new batch is
\* strictly greater than y_max, so a tie leaves X_max unchanged; without
\* initial data the optimizer starts at X_max = None, y_max = -infinity.
C11_MaxMonotone == [][MaxStep]_vars /\ []StartsWithoutMax

C11_Witness ==
    /\ cls = "BayesianOptimizer" /\ TeachCalled /\ Succeeded
    /\ Max(LabelsOf(call.y)) = call.pre_max.y_max
    /\ call.X[argmax(call.y)] # call.pre_max.X_max
    /\ X_max = call.pre_max.X_max
    /\ y_max = call.pre_max.y_max

\* C21: after construction and after every successful fit or teach call of a
\* BayesianOptimizer that holds aligned training data, y_max is the largest
\* label of y_training and X_max is a row of X_training that carries that label.
C21_MaxIsMaxOfBuffer ==
    (/\ cls = "BayesianOptimizer" /\ Succeeded
     /\ learner.y_training # None
     /\ Len(learner.X_training) = Len(learner.y_training)) =>
        /\ y_max = Max(LabelsOf(learner.y_training))
        /\ <<X_max, y_max>> \in PairsOf(learner.X_training, learner.y_training)

-----------------------------------------------------------------------------
\* Properties of the Committee (checked under SpecCommittee)

Known(i) == Range(estimator_classes_(learner_list[i].estimator))
KnownUnion == UNION {Known(i) : i \in DOMAIN learner_list}
Increasing(cs) == \A k, l \in DOMAIN cs : k < l => cs[k] < cs[l]
CommitteeSucceeded == ccall.exc = NoExc

\* C3: after construction and after every successful Committee.fit or
\* Committee.teach, classes_ is the sorted union of the learners' classes_ and
\* n_classes_ is its cardinality (every learner's estimator being fitted, so
\* that it has classes_).
C3_ClassesAreSortedUnion ==
    (/\ ccall.op \in {"__init__", "fit", "teach"}
     /\ CommitteeSucceeded
     /\ \A i \in DOMAIN learner_list : learner_list[i].estimator.fitted) =>
        /\ Range(classes_) = KnownUnion
        /\ Increasing(classes_)
        /\ n_classes_ = Cardinality(KnownUnion)
        /\ n_classes_ = Len(classes_)

C3_Witness ==
    /\ ccall.op = "teach" /\ CommitteeSucceeded
    /\ Known(1) = {0, 1}
    /\ Known(2) = {1, 2}
    /\ classes_ = <<0, 1, 2>>
    /\ ccall.pre.classes_ # classes_

\* C5: when the learners know different sets of classes, vote_proba puts each
\* learner's probability for a class it knows at the rank of that class in the
\* Committee's classes_ and 0 at every class the learner does not know; the row
\* is not renormalized.
C5_VoteProbaScatters ==
    (ccall.op = "vote_proba" /\ CommitteeSucceeded /\ ~check_class_labels(learner_list)) =>
        \A i \in DOMAIN learner_list :
            /\ Len(proba[i]) = n_classes_
            /\ \A k \in DOMAIN classes_ :
                 LET mine == estimator_classes_(learner_list[i].estimator)
                 IN  \/ /\ classes_[k] \notin Known(i)
                        /\ proba[i][k] = 0
                     \/ \E m \in DOMAIN mine :
                          /\ mine[m] = classes_[k]
                          /\ proba[i][k] = ccall.P[i][m]
            /\ Known(i) \subseteq Range(classes_) => Sum(proba[i]) = Sum(ccall.P[i])

C5_Witness ==
    /\ ccall.op = "vote_proba" /\ CommitteeSucceeded
    /\ classes_ = <<0, 1, 2>>
    /\ Known(1) = {0, 1}
    /\ ccall.P[1] = <<3, 7>>
    /\ proba[1] = <<3, 7, 0>>

\* C9: a Committee.teach or Committee.fit call that fails with a
\* shape/alignment error leaves the buffer of every learner as it was.
C9_FailedCallLeavesEveryBuffer ==
    (ccall.op \in {"teach", "fit"} /\ ccall.exc = "ValueError") =>
        \A i \in DOMAIN learner_list :
            SameBuffer(learner_list[i], ccall.pre.learner_list[i])

-----------------------------------------------------------------------------
\* Further properties of the Committee (checked under SpecCommittee)

\* C12: a successful Committee.fit(X, y) leaves every learner with the buffer
\* (X, y) and with its estimator fitted to all rows of (X, y), not to a
\* resample, and recomputes classes_ from the refitted learners.
C12_FitRefitsEveryLearner ==
    (ccall.op = "fit" /\ CommitteeSucceeded) =>
        /\ \A i \in DOMAIN learner_list :
             /\ learner_list[i].X_training = ccall.X
             /\ learner_list[i].y_training = ccall.y
             /\ learner_list[i].estimator.fitted
             /\ learner_list[i].estimator.X = ccall.X
             /\ learner_list[i].estimator.y = ccall.y
        /\ classes_ = SortSet(LabelsOf(ccall.y))
        /\ n_classes_ = Cardinality(LabelsOf(ccall.y))

C12_Witness ==
    /\ ccall.op = "fit" /\ CommitteeSucceeded
    /\ ccall.pre.learner_list[1].X_training = None
    /\ ccall.pre.learner_list[2].X_training # None
    /\ ccall.pre.learner_list[2].y_training # ccall.y
    /\ ccall.pre.classes_ # classes_
    /\ Len(ccall.X) = 2
    /\ learner_list[1] = learner_list[2]
    /\ learner_list[1].estimator.y = ccall.y

\* C13: a successful Committee.teach(X, y) appends (X, y) to the buffer of
\* every learner, for either value of only_new; every learner's estimator is
\* then fitted to its whole buffer (only_new=False) or to the new batch only
\* (only_new=True), to a resample of it when bootstrap is set; classes_ is
\* computed from the refitted learners.
C13_TeachAppendsToEveryLearner ==
    (ccall.op = "teach" /\ CommitteeSucceeded) =>
        /\ \A i \in DOMAIN learner_list :
             LET old == ccall.pre.learner_list[i]
                 new == learner_list[i]
                 onX == IF ccall.only_new THEN ccall.X ELSE new.X_training
                 ony == IF ccall.only_new THEN ccall.y ELSE new.y_training
             IN  /\ IF old.X_training = None
                    THEN new.X_training = ccall.X /\ new.y_training = ccall.y
                    ELSE /\ new.X_training = old.X_training \o ccall.X
                         /\ new.y_training = old.y_training \o ccall.y
                 /\ new.estimator.fitted
                 /\ IF ccall.bootstrap
                    THEN Resample(new.estimator, onX, ony, Len(onX))
                    ELSE new.estimator.X = onX /\ new.estimator.y = ony
        /\ classes_ = SortSet(KnownUnion)
        /\ n_classes_ = Cardinality(KnownUnion)

C13_Witness ==
    /\ ccall.op = "teach" /\ CommitteeSucceeded
    /\ ccall.only_new /\ ~ccall.bootstrap
    /\ ccall.pre.learner_list[1].X_training = None
    /\ ccall.pre.learner_list[2].X_training # None
    /\ Len(learner_list[2].X_training) = 2
    /\ learner_list[2].y_training = ccall.pre.learner_list[2].y_training \o ccall.y
    /\ learner_list[2].estimator.y = ccall.y
    /\ learner_list[1].X_training = ccall.X

\* C14: a successful Committee.rebag() fits every learner's estimator to a
\* bootstrap resample of that learner's own buffer, drawn for that learner, and
\* leaves every learner's X_training and y_training unchanged.
C14_RebagResamplesOwnBuffer ==
    (ccall.op = "rebag" /\ CommitteeSucceeded) =>
        \A i \in DOMAIN learner_list :
            /\ SameBuffer(learner_list[i], ccall.pre.learner_list[i])
            /\ learner_list[i].estimator.fitted
            /\ Resample(learner_list[i].estimator, learner_list[i].X_training,
                        learner_list[i].y_training, Len(learner_list[i].X_training))

C14_Witness ==
    /\ ccall.op = "rebag" /\ CommitteeSucceeded
    /\ Len(learner_list[1].X_training) = 2
    /\ learner_list[1].y_training = learner_list[2].y_training
    /\ learner_list[1].y_training[1] # learner_list[1].y_training[2]
    /\ learner_list[1].estimator.y[1] = learner_list[1].y_training[2]
    /\ learner_list[1].estimator.y[2] = learner_list[1].y_training[2]
    /\ learner_list[2].estimator.y[1] = learner_list[2].y_training[1]
    /\ learner_list[2].estimator.y[2] = learner_list[2].y_training[1]

\* the consensus probability of class index k: the float64 mean over the
\* learners of their rows of vote_proba
ConsensusAt(k) == predict_proba(proba)[k]
\* the indices of the classes whose consensus probability is the maximum
Maximisers ==
    {k \in DOMAIN classes_ :
        \A j \in DOMAIN classes_ : ~f_less(ConsensusAt(k), ConsensusAt(j))}

\* C16: Committee.predict returns classes_[k] for the smallest index k that
\* attains the maximum of the consensus probability: when classes tie for the
\* maximum, the one that comes first in classes_ is returned.
C16_PredictFirstMaximum ==
    (ccall.op = "predict" /\ CommitteeSucceeded) =>
        ccall.label = classes_[Min(Maximisers)]

C16_Witness ==
    /\ ccall.op = "predict" /\ CommitteeSucceeded
    /\ classes_ = <<0, 1, 2>>
    /\ f_less(ConsensusAt(1), ConsensusAt(2))
    /\ ConsensusAt(2) = ConsensusAt(3)
    /\ ccall.label = 1

\* C19: when all learners know the same set of labels, every row of
\* vote_proba is in the space of the Committee's classes_: the probability
\* learner i gives to a label stands at the index of that label in classes_,
\* and a label of classes_ that learner i does not know has probability 0.
C19_SameLabelsRowsInClassSpace ==
    (ccall.op = "vote_proba" /\ CommitteeSucceeded /\ check_class_labels(learner_list)) =>
        \A i \in DOMAIN learner_list :
            LET mine == estimator_classes_(learner_list[i].estimator)
            IN  /\ Len(proba[i]) = Len(classes_)
                /\ \A k \in DOMAIN classes_ :
                     proba[i][k] = IF classes_[k] \in Known(i)
                                   THEN ccall.P[i][IndexOf(mine, classes_[k])]
                                   ELSE 0

\* C20: after every successful call on a Committee whose learners are all
\* fitted, rebag included, classes_ is the sorted union of the learners' current
\* classes_ and n_classes_ is its cardinality.
C20_ClassesFollowLearners ==
    (CommitteeSucceeded /\ AllFitted(learner_list)) =>
        /\ Range(classes_) = KnownUnion
        /\ Increasing(classes_)
        /\ n_classes_ = Cardinality(KnownUnion)

-----------------------------------------------------------------------------
\* Properties of the CommitteeRegressor (checked under SpecRegressor)

\* every learner predicts the same value for sample s
Agree(s) == \A k, l \in DOMAIN regressor.P : regressor.P[k][s] = regressor.P[l][s]

\* C15: CommitteeRegressor.predict(X, return_std=True) returns for every
\* sample the mean of the learners' predictions and their population standard
\* deviation; when all learners predict the same value for every sample, the
\* returned std is 0 for every sample.
C15_StdZeroOnAgreement ==
    (/\ regressor.op = "predict"
     /\ regressor.return_std
     /\ \A s \in DOMAIN regressor.mean : Agree(s)) =>
        \A s \in DOMAIN regressor.std : regressor.std[s] = FloatZero

-----------------------------------------------------------------------------
\* Properties of the DeepActiveLearner (checked under SpecDeep)

DeepTaught == deep.op = "teach" /\ deep.exc = NoExc
\* what the estimator was trained on: the rows D
TrainedOn(e) == [X |-> e.X, y |-> e.y]

\* C18: DeepActiveLearner.teach with warm_start adds to what the estimator was
\* trained on, in one incremental update, exactly (X, y), or one resample of
\* (X, y) when bootstrap is set, and keeps what it was trained on before;
\* without warm_start the estimator is trained from scratch on (X, y), or on a
\* resample of it when bootstrap is set, and nothing of its earlier training
\* remains; the learner holds no training data, only its estimator.
C18_DeepTeachDispatch ==
    DeepTaught =>
        LET old == deep.pre.estimator
            new == deep.self.estimator
            added == [X |-> SubSeq(new.X, Len(old.X) + 1, Len(new.X)),
                      y |-> SubSeq(new.y, Len(old.y) + 1, Len(new.y))]
        IN  /\ DOMAIN deep.self = {"estimator"}
            /\ new.fitted
            /\ IF deep.warm_start
               THEN /\ SubSeq(new.X, 1, Len(old.X)) = old.X
                    /\ SubSeq(new.y, 1, Len(old.y)) = old.y
                    /\ IF deep.bootstrap
                       THEN Resample(added, deep.X, deep.y, Len(deep.X))
                       ELSE added.X = deep.X /\ added.y = deep.y
               ELSE IF deep.bootstrap
                    THEN Resample(TrainedOn(new), deep.X, deep.y, Len(deep.X))
                    ELSE new.X = deep.X /\ new.y = deep.y

C18_Witness ==
    /\ DeepTaught
    /\ deep.pre.estimator.fitted
    /\ deep.warm_start /\ ~deep.bootstrap
    /\ deep.self.estimator.X = deep.pre.estimator.X \o deep.X
    /\ deep.self.estimator.y = deep.pre.estimator.y \o deep.y
    /\ deep.pre.estimator.y # deep.y

-----------------------------------------------------------------------------
\* Properties of bootstrap fits (checked under SpecBootstrap)

\* D has as many rows as X, and every row of D is a row of X with its own label
ResampleOf(D, X, y) ==
    /\ Len(D.X) = Len(X)
    /\ Len(D.y) = Len(X)
    /\ \A i \in 1..Len(X) :
         \E j \in (DOMAIN X) \cap (DOMAIN y) : D.X[i] = X[j] /\ D.y[i] = y[j]

\* what a learner was last fitted on is a resample of its buffer, or of (X, y)
FittedOnResample(self, only_new, X, y) ==
    /\ self.estimator.fitted
    /\ IF only_new THEN ResampleOf(TrainedOn(self.estimator), X, y)
       ELSE ResampleOf(TrainedOn(self.estimator), self.X_training, self.y_training)

LearnerBootstrapFit ==
    /\ call.op \in {"__init__", "fit", "teach"}
    /\ call.exc = NoExc
    /\ call.bootstrap
    /\ learner.X_training # None

CommitteeBootstrapFit ==
    /\ ccall.op \in {"rebag", "teach"}
    /\ ccall.exc = NoExc
    /\ ccall.bootstrap

DeepBootstrapFit == deep.op \in {"teach", "fit"} /\ deep.exc = NoExc /\ deep.bootstrap

\* C17: every successful fit with bootstrap=True (construction with
\* bootstrap_init, fit, teach, Committee.rebag and Committee.teach, and
\* DeepActiveLearner.teach) gives the estimator exactly n rows, n the number of
\* available rows, and each of them is one of the available rows together with
\* the label of that same row: no index outside 0..n-1 is drawn.
C17_BootstrapFitsOnResample ==
    /\ LearnerBootstrapFit =>
         FittedOnResample(learner, call.op = "teach" /\ call.only_new, call.X, call.y)
    /\ CommitteeBootstrapFit =>
         \A i \in DOMAIN learner_list :
           FittedOnResample(learner_list[i], ccall.op = "teach" /\ ccall.only_new,
                            ccall.X, ccall.y)
    /\ DeepBootstrapFit =>
         LET old == deep.pre.estimator
             new == deep.self.estimator
         IN  IF deep.warm_start
             THEN ResampleOf([X |-> SubSeq(new.X, Len(old.X) + 1, Len(new.X)),
                              y |-> SubSeq(new.y, Len(old.y) + 1, Len(new.y))],
                             deep.X, deep.y)
             ELSE ResampleOf(TrainedOn(new), deep.X, deep.y)

\* a rebag drew the second row of a learner's buffer twice
C17_Witness ==
    /\ ccall.op = "rebag" /\ ccall.exc = NoExc
    /\ \E i \in DOMAIN learner_list :
         LET l == learner_list[i]
         IN  /\ Len(l.X_training) = 2
             /\ l.y_training[1] # l.y_training[2]
             /\ l.estimator.X = <<l.X_training[2], l.X_training[2]>>
             /\ l.estimator.y = <<l.y_training[2], l.y_training[2]>>

====
